---- MODULE Spec2Model ----
(***************************************************************************)
(* State machine of the LegislativeActsAnalyzer component                  *)
(* (src/frontend/app/page.tsx): the four useState cells, the closures of   *)
(* handleAnalyze suspended at `await uploadedFile.text()`, and the         *)
(* handlers the rendered controls can invoke.                              *)
(*                                                                         *)
(* Text is a sequence of characters so that String.split is computed, not  *)
(* assumed.  A handler runs to completion (or to its await) in one step:   *)
(* the event loop is single-threaded.  Every step records in `event` which *)
(* handler ran and in `output` what it emitted outside the React state     *)
(* (a download, an alert, a console.error line).                           *)
(***************************************************************************)
EXTENDS Integers, Sequences, FiniteSets, TLC

VARIABLES uploadedFile, analyses, selectedAnalysis, isAnalyzing,
          inflight, now, output, event

vars == <<uploadedFile, analyses, selectedAnalysis, isAnalyzing,
          inflight, now, output, event>>

\* ------------------------------------------------------------------ bounds
MaxHistory == 2
MaxClock == 2
MaxInflight == 2

\* ------------------------------------------------------------- data values
\* `null` of File | null and Analysis | null
Null == [kind |-> "null"]

SP == " "
NL == "\n"

\* The files the user can pick in the file dialog: a name and the text that
\* File.text() decodes.
Files ==
  { [name |-> "abc.txt", text |-> <<"a", SP, "b", SP, "c">>],
    [name |-> "two.txt", text |-> <<"a", NL, "b">>],
    [name |-> "empty.txt", text |-> <<>>] }

\* ----------------------------------------------------------- String.split
\* s.split(sep) for a one-character separator: the pieces between the
\* occurrences of sep; an empty string yields one empty piece.
RECURSIVE SplitFrom(_, _, _, _)
SplitFrom(s, sep, i, cur) ==
  IF i > Len(s) THEN <<cur>>
  ELSE IF s[i] = sep THEN <<cur>> \o SplitFrom(s, sep, i + 1, <<>>)
  ELSE SplitFrom(s, sep, i + 1, Append(cur, s[i]))

Split(s, sep) == SplitFrom(s, sep, 1, <<>>)

\* fileContent.split(" ").length
WordCount(fileContent) == Len(Split(fileContent, SP))

\* fileContent.split("\n").length
LineCount(fileContent) == Len(Split(fileContent, NL))

\* The template literal mockAnalysis: the fixed text with the three
\* interpolated values.
mockAnalysis(name, fileContent) ==
  [of |-> name, words |-> WordCount(fileContent),
   lines |-> LineCount(fileContent)]

\* new Date().toLocaleString(): the clock reading shown to the second
toLocaleString(t) == t \div 1000

\* The object literal newAnalysis, built at clock reading t
newAnalysis(file, fileContent, t) ==
  [id |-> ToString(t),
   filename |-> file.name,
   date |-> toLocaleString(t),
   content |-> mockAnalysis(file.name, fileContent),
   originalText |-> fileContent]

\* ------------------------------------------------------------------ outputs
NoOutput == [kind |-> "none"]
AlertPDF == [kind |-> "alert"]
ErrorLog == [kind |-> "console.error"]
SuffixWrong(filename) == filename \o ".txt"
DownloadName(filename) == filename \o "_analysis.txt"
Download(a) ==
  [kind |-> "download", name |-> DownloadName(a.filename), body |-> a.content]

\* -------------------------------------------------------------------- Init
Init ==
  /\ uploadedFile = Null
  /\ analyses = <<>>
  /\ selectedAnalysis = Null
  /\ isAnalyzing = FALSE
  /\ inflight = <<>>
  /\ now = 0
  /\ output = NoOutput
  /\ event = "init"

\* ----------------------------------------------------------------- actions
\* <input type="file" onChange={handleFileUpload}>, rendered while no file is
\* held
handleFileUpload(file) ==
  /\ uploadedFile = Null
  /\ uploadedFile' = file
  /\ event' = "upload"
  /\ output' = NoOutput
  /\ UNCHANGED <<analyses, selectedAnalysis, isAnalyzing, inflight, now>>

\* The Analyze button: rendered while a file is held, disabled={isAnalyzing}
AnalyzeEnabledNoBusyCheck == uploadedFile # Null
AnalyzeEnabled == uploadedFile # Null /\ ~isAnalyzing

\* handleAnalyze up to its await: the closure keeps the uploadedFile,
\* analyses and selectedAnalysis of the render that created it.
handleAnalyze ==
  /\ AnalyzeEnabled
  /\ Len(analyses) < MaxHistory
  /\ Len(inflight) < MaxInflight
  /\ isAnalyzing' = TRUE
  /\ inflight' = Append(inflight,
                        [uploadedFile |-> uploadedFile,
                         analyses |-> analyses,
                         selectedAnalysis |-> selectedAnalysis])
  /\ event' = "analyze"
  /\ output' = NoOutput
  /\ UNCHANGED <<uploadedFile, analyses, selectedAnalysis, now>>

Without(s, i) == SubSeq(s, 1, i - 1) \o SubSeq(s, i + 1, Len(s))

\* setAnalyses([newAnalysis, ...analyses]) with the closure's analyses
PrependDropsOld(rec, old) == <<rec>>
Prepend(rec, old) == <<rec>> \o old

SettleOkKeepsSelection(i) ==
  /\ i \in 1..Len(inflight)
  /\ \E t \in now..MaxClock :
       LET c == inflight[i]
           rec == newAnalysis(c.uploadedFile, c.uploadedFile.text, t)
       IN /\ now' = t
          /\ analyses' = Prepend(rec, c.analyses)
  /\ isAnalyzing' = FALSE
  /\ inflight' = Without(inflight, i)
  /\ event' = "settleOk"
  /\ output' = NoOutput
  /\ UNCHANGED <<uploadedFile, selectedAnalysis>>

SettleOkCancelledByRemove(i) ==
  /\ i \in 1..Len(inflight)
  /\ \E t \in now..MaxClock :
       LET c == inflight[i]
           rec == newAnalysis(c.uploadedFile, c.uploadedFile.text, t)
       IN /\ now' = t
          /\ IF uploadedFile = c.uploadedFile
             THEN /\ analyses' = Prepend(rec, c.analyses)
                  /\ selectedAnalysis' = rec
             ELSE UNCHANGED <<analyses, selectedAnalysis>>
  /\ isAnalyzing' = FALSE
  /\ inflight' = Without(inflight, i)
  /\ event' = "settleOk"
  /\ output' = NoOutput
  /\ UNCHANGED uploadedFile

\* The read of closure i resolves: the rest of the try block, then finally.
\* Date.now() returns some reading t not earlier than the last one.
SettleOk(i) ==
  /\ i \in 1..Len(inflight)
  /\ \E t \in now..MaxClock :
       LET c == inflight[i]
           rec == newAnalysis(c.uploadedFile, c.uploadedFile.text, t)
       IN /\ now' = t
          /\ analyses' = Prepend(rec, c.analyses)
          /\ selectedAnalysis' = rec
  /\ isAnalyzing' = FALSE
  /\ inflight' = Without(inflight, i)
  /\ event' = "settleOk"
  /\ output' = NoOutput
  /\ UNCHANGED uploadedFile

SettleErrKeepsFlag(i) ==
  /\ i \in 1..Len(inflight)
  /\ inflight' = Without(inflight, i)
  /\ event' = "settleErr"
  /\ output' = ErrorLog
  /\ UNCHANGED <<uploadedFile, analyses, selectedAnalysis, now, isAnalyzing>>

SettleErrClearsFile(i) ==
  /\ i \in 1..Len(inflight)
  /\ isAnalyzing' = FALSE
  /\ inflight' = Without(inflight, i)
  /\ uploadedFile' = Null
  /\ event' = "settleErr"
  /\ output' = ErrorLog
  /\ UNCHANGED <<analyses, selectedAnalysis, now>>

\* The read of closure i rejects: catch logs, then finally.
SettleErr(i) ==
  /\ i \in 1..Len(inflight)
  /\ isAnalyzing' = FALSE
  /\ inflight' = Without(inflight, i)
  /\ event' = "settleErr"
  /\ output' = ErrorLog
  /\ UNCHANGED <<uploadedFile, analyses, selectedAnalysis, now>>

Settle == \E i \in 1..Len(inflight) : SettleOk(i) \/ SettleErr(i)

handleRemoveCancels ==
  /\ uploadedFile # Null
  /\ uploadedFile' = Null
  /\ isAnalyzing' = FALSE
  /\ event' = "remove"
  /\ output' = NoOutput
  /\ UNCHANGED <<analyses, selectedAnalysis, inflight, now>>

\* The Remove button, rendered while a file is held
handleRemove ==
  /\ uploadedFile # Null
  /\ uploadedFile' = Null
  /\ event' = "remove"
  /\ output' = NoOutput
  /\ UNCHANGED <<analyses, selectedAnalysis, isAnalyzing, inflight, now>>

\* A history button: onClick={() => setSelectedAnalysis(analysis)}
SelectRecord(i) ==
  /\ i \in 1..Len(analyses)
  /\ selectedAnalysis' = analyses[i]
  /\ event' = "select"
  /\ output' = NoOutput
  /\ UNCHANGED <<uploadedFile, analyses, isAnalyzing, inflight, now>>

\* The PDF button, rendered while a record is selected
handleExportPDF ==
  /\ selectedAnalysis # Null
  /\ event' = "exportPDF"
  /\ output' = AlertPDF
  /\ UNCHANGED <<uploadedFile, analyses, selectedAnalysis, isAnalyzing,
                 inflight, now>>

\* The TXT button, rendered while a record is selected
handleExportTXT ==
  /\ selectedAnalysis # Null
  /\ event' = "exportTXT"
  /\ output' = Download(selectedAnalysis)
  /\ UNCHANGED <<uploadedFile, analyses, selectedAnalysis, isAnalyzing,
                 inflight, now>>

Next ==
  \/ \E file \in Files : handleFileUpload(file)
  \/ handleAnalyze
  \/ \E i \in 1..Len(inflight) : SettleOk(i)
  \/ \E i \in 1..Len(inflight) : SettleErr(i)
  \/ handleRemove
  \/ \E i \in 1..Len(analyses) : SelectRecord(i)
  \/ handleExportPDF
  \/ handleExportTXT

Spec == Init /\ [][Next]_vars

\* A pending read settles: the event loop runs the continuation.
FairSpec == Spec /\ WF_vars(Settle)

TypeOK ==
  /\ uploadedFile \in Files \cup {Null}
  /\ isAnalyzing \in BOOLEAN
  /\ now \in 0..MaxClock
  /\ Len(analyses) <= MaxHistory
  /\ Len(inflight) <= MaxInflight

\* ------------------------------------------------------------------ claims
Settles == {"settleOk", "settleErr"}
UserEvents == {"upload", "remove", "select", "exportPDF", "exportTXT"}

C2_IdsDistinct ==
  \A i, j \in 1..Len(analyses) : i # j => analyses[i].id # analyses[j].id

\* Splitting on whitespace: the pieces between maximal runs of whitespace
\* characters (space or line break).
IsWhitespace(ch) == ch \in {SP, NL}

RECURSIVE WhitespacePiecesFrom(_, _, _, _)
WhitespacePiecesFrom(s, i, cur, inRun) ==
  IF i > Len(s) THEN <<cur>>
  ELSE IF IsWhitespace(s[i])
       THEN IF inRun THEN WhitespacePiecesFrom(s, i + 1, cur, TRUE)
            ELSE <<cur>> \o WhitespacePiecesFrom(s, i + 1, <<>>, TRUE)
       ELSE WhitespacePiecesFrom(s, i + 1, Append(cur, s[i]), FALSE)

WhitespacePieces(s) == WhitespacePiecesFrom(s, 1, <<>>, FALSE)

\* C3: the summary of every record reports as word count the number of
\* pieces of its text split on whitespace and as line count the number of
\* pieces split on line breaks ("a b c": 3 words, 1 line).
C3_CountsSplitOnWhitespace ==
  \A i \in 1..Len(analyses) :
    LET a == analyses[i] IN
      /\ a.content.words = Len(WhitespacePieces(a.originalText))
      /\ a.content.lines = Len(Split(a.originalText, NL))
      /\ (a.originalText = <<"a", SP, "b", SP, "c">> =>
             a.content.words = 3 /\ a.content.lines = 1)

InHistory(a) == \E i \in 1..Len(analyses) : analyses[i] = a

C5_FailureRestoresTriggerState ==
  [][ event' = "settleErr" =>
        \E i \in 1..Len(inflight) :
          /\ inflight' = Without(inflight, i)
          /\ uploadedFile' = inflight[i].uploadedFile
          /\ analyses' = inflight[i].analyses
          /\ selectedAnalysis' = inflight[i].selectedAnalysis
          /\ isAnalyzing /\ ~isAnalyzing' ]_vars

\* C5 amended: when the read fails, the error is logged and the step changes
\* nothing but the in-progress flag: the history is the one of trigger time,
\* the held file and the selected record are the ones of just before the
\* read settled.
C5_FailureOnlyClearsFlag ==
  [][ event' = "settleErr" =>
        /\ \E i \in 1..Len(inflight) :
             /\ inflight' = Without(inflight, i)
             /\ analyses' = inflight[i].analyses
        /\ analyses' = analyses
        /\ uploadedFile' = uploadedFile
        /\ selectedAnalysis' = selectedAnalysis
        /\ isAnalyzing /\ ~isAnalyzing'
        /\ output' = ErrorLog ]_vars

C5_Witness ==
  /\ event = "settleErr"
  /\ ~isAnalyzing
  /\ uploadedFile = Null
  /\ Len(analyses) = 1
  /\ selectedAnalysis = analyses[1]

\* C6: at most one analysis is in flight, and while one is in flight the
\* in-progress flag that disables the Analyze button is set, whatever file is
\* held meanwhile.
C6_AtMostOneInFlight ==
  /\ Len(inflight) <= 1
  /\ (Len(inflight) = 1 => isAnalyzing)

C6_Witness ==
  /\ Len(inflight) = 1
  /\ uploadedFile # Null
  /\ uploadedFile # inflight[1].uploadedFile

\* C7 as stated: while a read is in flight no remove, file-selection,
\* record-selection or export event is processed.
C7_NoEventDuringRead ==
  [][ inflight # <<>> => event' \notin UserEvents ]_vars

\* C7 amended: while a read is in flight the only steps are its settling and
\* remove, file-selection, record-selection and export events; those events
\* leave the pending read, the history and the in-progress flag as they are.
C7_OnlyUserEventsOverlapRead ==
  [][ inflight # <<>> =>
        /\ event' \in Settles \cup UserEvents
        /\ (event' \in UserEvents =>
              /\ inflight' = inflight
              /\ analyses' = analyses
              /\ isAnalyzing /\ isAnalyzing') ]_vars

C7_Witness ==
  /\ inflight # <<>>
  /\ event = "remove"
  /\ uploadedFile = Null
  /\ isAnalyzing

\* C8: a text export with a record selected produces the artifact named
\* <filename>_analysis.txt holding that record's summary; no artifact is
\* produced without a selected record or by another step; the export leaves
\* held file, history, selection and in-progress flag unchanged.
C8_ExportTXT ==
  [][ /\ (event' = "exportTXT" =>
            /\ selectedAnalysis # Null
            /\ output'.kind = "download"
            /\ output'.name = selectedAnalysis.filename \o "_analysis.txt"
            /\ output'.body = selectedAnalysis.content
            /\ UNCHANGED <<uploadedFile, analyses, selectedAnalysis,
                           isAnalyzing>>)
      /\ (output'.kind = "download" =>
            event' = "exportTXT" /\ selectedAnalysis # Null) ]_vars

C8_Witness ==
  /\ event = "exportTXT"
  /\ output.kind = "download"
  /\ output.name = "abc.txt_analysis.txt"
  /\ output.body = selectedAnalysis.content
  /\ output.body.words = 3

\* C9: the in-progress flag is false initially, is set exactly while a read
\* is in flight, is set only by triggering an analysis on a held file, is
\* cleared only by the settling of the read (success or failure), is left
\* alone by every other event, and once set is eventually cleared.
C9_FlagTracksRun ==
  /\ ~isAnalyzing
  /\ [](isAnalyzing <=> inflight # <<>>)
  /\ [][ /\ (~isAnalyzing /\ isAnalyzing' =>
               event' = "analyze" /\ uploadedFile # Null)
         /\ (isAnalyzing /\ ~isAnalyzing' => event' \in Settles)
         /\ (event' \in Settles => ~isAnalyzing')
         /\ (event' \in UserEvents => isAnalyzing' = isAnalyzing) ]_vars
  /\ (isAnalyzing ~> ~isAnalyzing)

C9_Witness ==
  /\ event \in Settles
  /\ ~isAnalyzing
  /\ inflight = <<>>
  /\ uploadedFile # Null

\* C10: a read that settles successfully prepends the record of the file
\* held at trigger time (its name and its text) and selects it, whatever is
\* held or selected at that moment; the held file is not touched.
C10_RemoveDoesNotCancel ==
  [][ event' = "settleOk" =>
        \E i \in 1..Len(inflight) :
          LET c == inflight[i] IN
            /\ Len(analyses') = Len(c.analyses) + 1
            /\ Head(analyses').filename = c.uploadedFile.name
            /\ Head(analyses').originalText = c.uploadedFile.text
            /\ selectedAnalysis' = Head(analyses')
            /\ uploadedFile' = uploadedFile ]_vars

C10_Witness ==
  /\ event = "settleOk"
  /\ uploadedFile = Null
  /\ Len(analyses) = 2
  /\ selectedAnalysis = Head(analyses)
====
